---------------------------- MODULE Spec2Model ----------------------------
(***************************************************************************)
(* A model of the Data-intelligence-Agent scraper: the top-level scrape()  *)
(* pipeline and its fetch race, the UniversalSpider tier chain, the        *)
(* WebExtractor retry/fallback logic and the emptiness test.               *)
(*                                                                         *)
(* The module holds several specifications over one set of variables.      *)
(* Each specification drives one component and leaves the variables of    *)
(* the other components at their initial values:                           *)
(*   SpecEmpty     the emptiness test as a function of a JSON value        *)
(*   SpecParse     UniversalSpider.parse / errback (tiers T1..T3)          *)
(*   Spec          scrape(): robots, schema, routing, race, validation     *)
(*   SpecFallback  WebExtractor.extract and extract_with_fallback          *)
(*   SpecNormalize the list-vs-object normalization of extract             *)
(*   SpecRouter    StrategyRouter.choose_strategy                          *)
(*   SpecTool      the scrape_url tool and its subprocess timeout          *)
(*   SpecJsonld    StructuredDataExtractor.extract_jsonld                  *)
(*   SpecClean     the markdown clean-up of ContentOptimizer.optimize      *)
(*   SpecAlt       WebExtractor.extract_from_alternative_sources           *)
(***************************************************************************)
EXTENDS Integers, Sequences, FiniteSets, TLC

VARIABLES
    \* ---- emptiness test (SpecEmpty)
    data,            \* the value handed to the emptiness test
    emptyOut,        \* outcome of UniversalSpider._is_empty(data)
    inlineOut,       \* outcome of the inline test of WebExtractor.extract
    \* ---- UniversalSpider.parse (SpecParse)
    pcP,             \* position of parse(): start, t1_wait, t2_wait, t3_wait, done
    spider,          \* the spider's construction parameters
    page,            \* the response being parsed
    tier,            \* tier status, 1..3
    order,           \* the tiers in the order their completion call was started
    running,         \* the set of tiers with a completion call in flight
    llmCalls,        \* completion calls made by parse()
    results_collector, \* the spider's results_collector list
    yielded,         \* the items parse()/errback() yielded
    raisedIn,        \* the tiers in which an exception was raised
    \* ---- scrape() and the fetch race (Spec)
    pc,              \* position of scrape()
    env,             \* scrape()'s options and the environment it runs in
    stages,          \* the stages scrape() has entered, in order
    task,            \* the two race tasks: idle, running, done, cancelled, reaped
    uStep,           \* position of WebUnlockerExtractor.extract
    out,             \* what each finished task ended with
    doneOrder,       \* the paths in the order they completed
    awaited,         \* the paths whose result the race has taken
    race,            \* the race: status, winner, result, error
    ucalls,          \* fetches and completion calls made by the unlocker
    raw_data,        \* scrape()'s raw_data
    outcome,         \* what scrape() returned or raised
    \* ---- extract_with_fallback (SpecFallback)
    fpc,             \* position of extract_with_fallback and the extract call it awaits
    fcfg,            \* the arguments of extract_with_fallback
    attempt,         \* the loop variable of the running extract call
    sleeps,          \* the back-off delays the running extract call has slept
    log,             \* why each failed attempt of the running extract call failed
    altCalls,        \* the attempts in which the alternative sources were consulted
    exCalls,         \* the strategy type of every extract call made, in order
    exEnds,          \* how each finished extract call ended: return or raise
    fOut,            \* what extract_with_fallback returned or raised
    \* ---- list-vs-object normalization (SpecNormalize)
    nIn,             \* the value json.loads returned
    nOut,            \* extracted_data after lines 226-253
    nPc,             \* in: before the normalization, out: after it
    \* ---- StrategyRouter.choose_strategy (SpecRouter)
    rPc,             \* position of choose_strategy: idle, classified, done
    rIn,             \* its arguments and what the classification call answers
    needs_semantic,  \* what _is_semantic_query returned
    rOut,            \* what choose_strategy returned or raised
    \* ---- the scrape_url tool (SpecTool)
    tPc,             \* position of scrape_url: idle, waiting, reaping, done
    clock,           \* seconds since wait_for(process.communicate()) began
    process,         \* what happened to the subprocess: spawn, exit, kill, wait
    tOut,            \* the tool response scrape_url returned
    \* ---- StructuredDataExtractor.extract_jsonld (SpecJsonld)
    jPc,             \* in: before the call, out: after it
    jHtml,           \* the JSON-LD script blocks of the page, in document order
    jOut,            \* what extract_jsonld returned
    \* ---- ContentOptimizer._clean_markdown (SpecClean)
    mPc,             \* in: before the clean-up, out: after it
    markdown,        \* the markdown the conversion of step 4 produced
    mOut,            \* what optimize returns
    \* ---- WebExtractor.extract_from_alternative_sources (SpecAlt)
    aPc,             \* position: idle, converting, done
    aPage,           \* what each source of the page gives, and the completion's reply
    consulted,       \* the sources consulted, in order
    conversions,     \* the conversion calls made, in order
    aOut             \* what extract_from_alternative_sources returned

emptyVars == <<data, emptyOut, inlineOut>>
parseVars == <<pcP, spider, page, tier, order, running, llmCalls,
               results_collector, yielded, raisedIn>>
scrapeVars == <<pc, env, stages, task, uStep, out, doneOrder, awaited, race,
                ucalls, raw_data, outcome>>
fbVars == <<fpc, fcfg, attempt, sleeps, log, altCalls, exCalls, exEnds, fOut>>
normVars == <<nIn, nOut, nPc>>
routerVars == <<rPc, rIn, needs_semantic, rOut>>
toolVars == <<tPc, clock, process, tOut>>
jsonldVars == <<jPc, jHtml, jOut>>
cleanVars == <<mPc, markdown, mOut>>
altVars == <<aPc, aPage, consulted, conversions, aOut>>
laterVars == <<toolVars, jsonldVars, cleanVars, altVars>>
coreVars == <<emptyVars, parseVars, scrapeVars, fbVars, normVars, routerVars>>
vars == <<coreVars, laterVars>>
\* what each component leaves alone
NotEmpty == <<parseVars, scrapeVars, fbVars, normVars, routerVars, laterVars>>
NotParse == <<emptyVars, scrapeVars, fbVars, normVars, routerVars, laterVars>>
NotScrape == <<emptyVars, parseVars, fbVars, normVars, routerVars, laterVars>>
NotFallback == <<emptyVars, parseVars, scrapeVars, normVars, routerVars, laterVars>>
NotNormalize == <<emptyVars, parseVars, scrapeVars, fbVars, routerVars, laterVars>>
NotRouter == <<emptyVars, parseVars, scrapeVars, fbVars, normVars, laterVars>>
NotTool == <<coreVars, jsonldVars, cleanVars, altVars>>
NotJsonld == <<coreVars, toolVars, cleanVars, altVars>>
NotClean == <<coreVars, toolVars, jsonldVars, altVars>>
NotAlt == <<coreVars, toolVars, jsonldVars, cleanVars>>

(***************************************************************************)
(* JSON values.  Every value is a record of one shape, so that any two     *)
(* values can be compared: k is the kind, keys the keys of a mapping (in   *)
(* insertion order) and c the children of a list or a mapping.             *)
(***************************************************************************)
JScalar(kind) == [k |-> kind, keys |-> <<>>, c |-> <<>>]
JNull   == JScalar("null")
JZero   == JScalar("zero")       \* the number 0
JFalse  == JScalar("false")
JEStr   == JScalar("estr")       \* the empty string
JStr    == JScalar("str")        \* a non-empty string
JList(items)       == [k |-> "list", keys |-> <<>>, c |-> items]
JDict(ks, values)  == [k |-> "dict", keys |-> ks, c |-> values]
JEmptyList == JList(<<>>)
JEmptyDict == JDict(<<>>, <<>>)

IsDict(v) == v.k = "dict"
IsList(v) == v.k = "list"
Values(v) == {v.c[i] : i \in 1..Len(v.c)}

\* Python truthiness: None, 0, False, "", [] and {} are falsy.
Truthy(v) ==
    CASE v.k \in {"null", "zero", "false", "estr"} -> FALSE
      [] v.k = "str" -> TRUE
      [] OTHER -> Len(v.c) > 0

\* Bounds of the value universe.
MaxKeys == 2
KeyNames == <<"a", "b", "c", "d">>

Leaves == {JNull, JZero, JFalse, JEStr, JStr}
Val0 == Leaves \cup {JEmptyList, JEmptyDict}
\* values nested one level: a list of one element, a mapping of one key
Val1 == Val0 \cup {JList(<<v>>) : v \in Val0} \cup {JDict(<<"a">>, <<v>>) : v \in Val0}
DictsOver(S) ==
    UNION {{JDict(SubSeq(KeyNames, 1, n), vs) : vs \in [1..n -> S]} : n \in 0..MaxKeys}
\* what a completion can parse to: mappings, and the non-mapping JSON values
Mappings == DictsOver(Val1)
JsonValues == Mappings \cup Val1

(***************************************************************************)
(* The emptiness test.                                                     *)
(***************************************************************************)
\* the generator of universal_spider.py:237-239 and extractor.py:267
EmptyValue_Falsy(v) == ~Truthy(v)
EmptyValue(v) == (IsList(v) /\ Len(v.c) = 0) \/ v = JNull \/ v = JEmptyDict

\* UniversalSpider._is_empty: "True", "False", or the AttributeError that
\* data.values() raises on a truthy value that is no mapping.
is_empty(d) ==
    IF ~Truthy(d) THEN "True"
    ELSE IF ~IsDict(d) THEN "AttributeError"
    ELSE IF \A v \in Values(d) : EmptyValue(v) THEN "True" ELSE "False"

\* The inline test of WebExtractor.extract: is_empty stays False for a value
\* that is no mapping.
extract_is_empty(d) ==
    IF IsDict(d)
    THEN IF ~Truthy(d) THEN TRUE ELSE \A v \in Values(d) : EmptyValue(v)
    ELSE FALSE

EmptyIdle == data \in JsonValues /\ emptyOut = "none" /\ inlineOut = "none"

CallIsEmpty ==
    /\ emptyOut = "none"
    /\ emptyOut' = is_empty(data)
    /\ UNCHANGED <<data, inlineOut>>
    /\ UNCHANGED NotEmpty

CallExtractIsEmpty ==
    /\ inlineOut = "none"
    /\ inlineOut' = IF extract_is_empty(data) THEN "True" ELSE "False"
    /\ UNCHANGED <<data, emptyOut>>
    /\ UNCHANGED NotEmpty

(***************************************************************************)
(* UniversalSpider.parse and errback.                                      *)
(*                                                                         *)
(* spider: strategy_type and which of the three collaborators were         *)
(* injected (each defaults to None).  page.html: "empty" (a body of length *)
(* 0), "plain" (no structured sources) or "structured" (extract_all finds   *)
(* data); page.failed: the request failed and errback is called instead.   *)
(***************************************************************************)
StrategyTypes == {"llm", "css"}
Spiders == [strategy_type : StrategyTypes,
            structured_extractor : BOOLEAN,
            content_optimizer : BOOLEAN,
            llm_extractor : BOOLEAN]
\* html "binary": a response whose body is not text (a PDF, an image), for
\* which Scrapy's response.text raises AttributeError
Pages == [html : {"empty", "plain", "structured", "binary"}, failed : BOOLEAN]

\* A completion either fails in transport, returns text that is no JSON, or
\* returns a JSON value.
ApiError == JScalar("api_error")
BadJson  == JScalar("bad_json")
ParseJson == DictsOver(Val0) \cup Val1
Completions == ParseJson \cup {ApiError, BadJson}

\* ScrapyLLMExtractor.extract / convert_structured_data: every exception of
\* the call is caught and None returned; _parse_json_response returns None
\* on a JSONDecodeError.
llm_extract(resp) == IF resp \in {ApiError, BadJson} THEN JNull ELSE resp

\* StructuredDataExtractor.extract_all: data or None; each pass catches its
\* own exceptions.
extract_all(pg) == pg.html = "structured"

\* ContentOptimizer.optimize has no handler of its own; its size report
\* divides by len(html).
optimize_raises(pg) == pg.html = "empty"

\* extraction_strategy strings, as their "_"-separated parts:
\* "llm_full" is <<"llm", "full">>, "failed" is <<"failed">>.
M_structured_data == <<"structured", "data">>
M_llm_optimized   == <<"llm", "optimized">>
M_llm_full        == <<"llm", "full">>
M_failed          == <<"failed">>
M_error           == <<"error">>
Method(k) == CASE k = 1 -> M_structured_data [] k = 2 -> M_llm_optimized [] OTHER -> M_llm_full

\* UniversalSpider._format_result: f"{self.strategy_type}_{extraction_method}"
format_result(sp, d, method, success, error_message) ==
    [extracted_data |-> d,
     extraction_strategy |-> <<sp.strategy_type>> \o method,
     success |-> success,
     error_message |-> error_message]

\* parse(): line 182, every tier came back empty
AllFailed_SuccessDefault(sp) == format_result(sp, JEmptyDict, M_failed, TRUE, "None")
AllFailed(sp) == format_result(sp, JEmptyDict, M_failed, FALSE, "None")
\* parse(): lines 184-192, the handler around all three tiers; errback
ErrorResult(sp) == format_result(sp, JEmptyDict, M_error, FALSE, "exception")

\* What parse() does next, from the entry of a tier up to the next await or
\* to its end: pc, the tiers' status, the tier whose completion call starts
\* (0: none) and the item it ends with ("none" while it goes on).
Step(next, t, started, item) == [pc |-> next, tier |-> t, started |-> started, item |-> item]
NoItem == [extracted_data |-> JNull, extraction_strategy |-> <<>>,
           success |-> FALSE, error_message |-> "no item"]

\* lines 170-182
EnterT3(sp, pg, t) ==
    IF sp.llm_extractor
    THEN Step("t3_wait", [t EXCEPT ![3] = "running"], 3, NoItem)
    ELSE Step("done", [t EXCEPT ![3] = "absent"], 0, AllFailed(sp))

\* lines 158-168
EnterT2(sp, pg, t) ==
    IF sp.content_optimizer /\ sp.llm_extractor
    THEN IF optimize_raises(pg)
         THEN Step("done", [t EXCEPT ![2] = "raised"], 0, ErrorResult(sp))
         ELSE Step("t2_wait", [t EXCEPT ![2] = "running"], 2, NoItem)
    ELSE EnterT3(sp, pg, [t EXCEPT ![2] = "absent"])

\* lines 140-156
EnterT1(sp, pg, t) ==
    IF sp.structured_extractor
    THEN IF extract_all(pg)
         THEN IF sp.llm_extractor
              THEN Step("t1_wait", [t EXCEPT ![1] = "running"], 1, NoItem)
              ELSE EnterT2(sp, pg, [t EXCEPT ![1] = "absent"])
         ELSE EnterT2(sp, pg, [t EXCEPT ![1] = "empty"])
    ELSE EnterT2(sp, pg, [t EXCEPT ![1] = "absent"])

NextTier(sp, pg, k, t) ==
    CASE k = 1 -> EnterT2(sp, pg, t)
      [] k = 2 -> EnterT3(sp, pg, t)
      [] OTHER -> Step("done", t, 0, AllFailed(sp))

\* a tier's data passed the test: yield and return (lines 155-156, 167-168,
\* 177-178)
OnHit_NoReturn(sp, pg, k, t, extracted) == NextTier(sp, pg, k, [t EXCEPT ![k] = "hit"])
OnHit(sp, pg, k, t, extracted) ==
    Step("done", [t EXCEPT ![k] = "hit"], 0,
         format_result(sp, extracted, Method(k), TRUE, "None"))

\* "if extracted and not self._is_empty(extracted)" and what follows it
AfterCompletion(sp, pg, k, t, extracted) ==
    IF ~Truthy(extracted) THEN NextTier(sp, pg, k, [t EXCEPT ![k] = "empty"])
    ELSE CASE is_empty(extracted) = "AttributeError" ->
                Step("done", [t EXCEPT ![k] = "raised"], 0, ErrorResult(sp))
           [] is_empty(extracted) = "True" ->
                NextTier(sp, pg, k, [t EXCEPT ![k] = "empty"])
           [] OTHER -> OnHit(sp, pg, k, t, extracted)

NoTiers == [k \in 1..3 |-> "notrun"]

ParseIdle ==
    /\ pcP = "start"
    /\ spider \in Spiders
    /\ page \in Pages
    /\ tier = NoTiers
    /\ order = <<>>
    /\ running = {}
    /\ llmCalls = 0
    /\ results_collector = <<>>
    /\ yielded = <<>>
    /\ raisedIn = {}

\* the effect of one stretch of parse() between two awaits
Advance(st, caught) ==
    /\ pcP' = st.pc
    /\ raisedIn' = raisedIn \cup caught \cup {k \in 1..3 : st.tier[k] = "raised"}
    /\ tier' = st.tier
    /\ order' = IF st.started = 0 THEN order ELSE Append(order, st.started)
    /\ running' = IF st.started = 0 THEN {} ELSE {st.started}
    /\ llmCalls' = IF st.started = 0 THEN llmCalls ELSE llmCalls + 1
    /\ IF st.pc = "done"
       THEN /\ results_collector' = Append(results_collector, st.item)
            /\ yielded' = Append(yielded, st.item)
       ELSE UNCHANGED <<results_collector, yielded>>
    /\ UNCHANGED <<spider, page>>
    /\ UNCHANGED NotParse

\* Scrapy calls parse(response); lines 132-133 read response.text before
\* the try of line 139
ParseCall ==
    /\ pcP = "start" /\ ~page.failed
    /\ IF page.html = "binary"
       THEN Advance(Step("raised", tier, 0, NoItem), {})
       ELSE Advance(EnterT1(spider, page, tier), {})

\* the completion call of the tier in flight returns
CompletionReturns ==
    /\ pcP \in {"t1_wait", "t2_wait", "t3_wait"}
    /\ \E k \in running, resp \in Completions :
          Advance(AfterCompletion(spider, page, k, tier, llm_extract(resp)),
                  IF resp \in {ApiError, BadJson} THEN {k} ELSE {})

\* Scrapy calls errback(failure)
ErrbackCall ==
    /\ pcP = "start" /\ page.failed
    /\ Advance(Step("done", tier, 0, ErrorResult(spider)), {})

(***************************************************************************)
(* scrape() and the fetch race.                                            *)
(***************************************************************************)
Paths == {"B", "U"}          \* the browser path and the unlocker path
Other(p) == IF p = "B" THEN "U" ELSE "B"

Envs == [respect_robots_txt : BOOLEAN,
         skip_validation : BOOLEAN,
         robots : {"allow", "deny", "unreadable"},
         UNLOCKER_API_TOKEN : BOOLEAN,
         UNLOCKER_ZONE : BOOLEAN]

\* check_robots_txt: the parser's verdict, and True when robots.txt cannot
\* be read
check_robots_txt_FailOpen(robots) == TRUE
check_robots_txt(robots) == IF robots = "unreadable" THEN TRUE ELSE robots = "allow"

NoOutcome == [kind |-> "none", error |-> "None", value |-> JNull, validated |-> FALSE]
Raise(e) == [kind |-> "raise", error |-> e, value |-> JNull, validated |-> FALSE]
Return(v, validated) == [kind |-> "return", error |-> "None", value |-> v, validated |-> validated]

\* What a race task ended with: an ExtractionResult ("result"), the value
\* WebUnlockerExtractor.extract returned ("data"), or an ExtractionError
\* ("raise").
Pending == [kind |-> "pending", res |-> NoItem]
TaskResult(r) == [kind |-> "result", res |-> r]
TaskData(d) == [kind |-> "data", res |-> [NoItem EXCEPT !.extracted_data = d]]
TaskRaise == [kind |-> "raise", res |-> [NoItem EXCEPT !.error_message = "ExtractionError"]]

\* The browser path ends with one of the items of the tier chain, with a
\* successful result that holds no data, or with an ExtractionError.
LLMSpider == [strategy_type |-> "llm"]
BrowserData == JDict(<<"a">>, <<JStr>>)
BrowserOutcomes ==
    {TaskResult(format_result(LLMSpider, BrowserData, Method(k), TRUE, "None")) : k \in 1..3}
    \cup {TaskResult(AllFailed(LLMSpider)), TaskResult(ErrorResult(LLMSpider)),
          TaskResult(format_result(LLMSpider, JDict(<<"a">>, <<JNull>>), <<>>, TRUE, "None")),
          TaskRaise}

\* WebUnlockerExtractor.extract, line 54: "if not self.api_token or not self.zone"
unlocker_configured_TokenOnly(e) == e.UNLOCKER_API_TOKEN
unlocker_configured(e) == e.UNLOCKER_API_TOKEN /\ e.UNLOCKER_ZONE

\* _fetch_via_unlocker: the body, an empty body, or None (a timeout, an HTTP
\* error status or any other exception, each caught there)
FetchOutcomes == {"html", "empty", "none"}
\* what the unlocker's completion can come back with
UnlockerCompletions ==
    {ApiError, BadJson, JNull, JEmptyDict, JDict(<<"a">>, <<JNull>>),
     JDict(<<"b">>, <<JStr>>), JDict(<<"a", "b">>, <<JNull, JZero>>), JList(<<JStr>>)}

\* the race's test of "usable, non-empty content"
Usable(o) ==
    CASE o.kind = "result" -> o.res.success /\ is_empty(o.res.extracted_data) = "False"
      [] o.kind = "data" -> is_empty(o.res.extracted_data) = "False"
      [] OTHER -> FALSE

\* the ExtractionResult a path yields when it is the only one run
M_web_unlocker == <<"web", "unlocker">>
PathResult(p, o) ==
    IF p = "U"
    THEN [extracted_data |-> o.res.extracted_data, extraction_strategy |-> M_web_unlocker,
          success |-> TRUE, error_message |-> "None"]
    ELSE o.res

NoRace == [status |-> "idle", winner |-> "none", result |-> NoItem, error |-> "None"]

ScrapeIdle ==
    /\ pc = "start"
    /\ env \in Envs
    /\ stages = <<>>
    /\ task = [p \in Paths |-> "idle"]
    /\ uStep = "idle"
    /\ out = [p \in Paths |-> Pending]
    /\ doneOrder = <<>>
    /\ awaited = {}
    /\ race = NoRace
    /\ ucalls = [fetch |-> 0, llm |-> 0]
    /\ raw_data = JNull
    /\ outcome = NoOutcome

raceVars == <<task, uStep, out, doneOrder, awaited, race, ucalls>>

\* main.py 140-191: the step that follows a stage that succeeded
StageAfter_SkipRouting(s) == IF s = "robots" THEN "schema" ELSE "extract"
StageAfter(s) ==
    CASE s = "robots" -> "schema"
      [] s = "schema" -> "routing"
      [] OTHER -> "extract"

\* main.py 138-148
CheckRobots ==
    /\ pc = "start"
    /\ IF env.respect_robots_txt
       THEN /\ stages' = Append(stages, "robots")
            /\ IF check_robots_txt(env.robots)
               THEN pc' = StageAfter("robots") /\ UNCHANGED outcome
               ELSE pc' = "raised" /\ outcome' = Raise("ExtractionError")
       ELSE pc' = StageAfter("robots") /\ UNCHANGED <<stages, outcome>>
    /\ UNCHANGED <<env, raw_data, raceVars>>
    /\ UNCHANGED NotScrape

\* main.py 150-160; generate_schema turns every failure into a
\* SchemaGenerationError
GenerateSchema ==
    /\ pc = "schema"
    /\ stages' = Append(stages, "schema")
    /\ \E ok \in BOOLEAN :
          IF ok THEN pc' = StageAfter("schema") /\ UNCHANGED outcome
          ELSE pc' = "raised" /\ outcome' = Raise("SchemaGenerationError")
    /\ UNCHANGED <<env, raw_data, raceVars>>
    /\ UNCHANGED NotScrape

\* main.py 162-178; choose_strategy turns every failure into a
\* StrategyRoutingError
ChooseStrategy ==
    /\ pc = "routing"
    /\ stages' = Append(stages, "routing")
    /\ \E ok \in BOOLEAN :
          IF ok THEN pc' = StageAfter("routing") /\ UNCHANGED outcome
          ELSE pc' = "raised" /\ outcome' = Raise("StrategyRoutingError")
    /\ UNCHANGED <<env, raw_data, raceVars>>
    /\ UNCHANGED NotScrape

\* extract_with_race is called (main.py 195): both paths are started
RaceStart ==
    /\ pc = "extract"
    /\ pc' = "race"
    /\ stages' = Append(stages, "extraction")
    /\ task' = [p \in Paths |-> "running"]
    /\ uStep' = "cred"
    /\ race' = [race EXCEPT !.status = "running"]
    /\ UNCHANGED <<env, raw_data, outcome, out, doneOrder, awaited, ucalls>>
    /\ UNCHANGED NotScrape

Complete(p, o) ==
    /\ task' = [task EXCEPT ![p] = "done"]
    /\ out' = [out EXCEPT ![p] = o]
    /\ doneOrder' = Append(doneOrder, p)

\* the browser path ends
BrowserCompletes ==
    /\ task["B"] = "running"
    /\ \E o \in BrowserOutcomes : Complete("B", o)
    /\ UNCHANGED <<pc, env, stages, raw_data, outcome, uStep, awaited, race, ucalls>>
    /\ UNCHANGED NotScrape

\* WebUnlockerExtractor.extract 54-62: without credentials it returns None
\* at once, otherwise it posts the fetch
UnlockerCheckCredentials ==
    /\ task["U"] = "running" /\ uStep = "cred"
    /\ IF unlocker_configured(env)
       THEN /\ uStep' = "fetch"
            /\ ucalls' = [ucalls EXCEPT !.fetch = @ + 1]
            /\ UNCHANGED <<task, out, doneOrder>>
       ELSE /\ uStep' = "end"
            /\ Complete("U", TaskData(JNull))
            /\ UNCHANGED ucalls
    /\ UNCHANGED <<pc, env, stages, raw_data, outcome, awaited, race>>
    /\ UNCHANGED NotScrape

\* WebUnlockerExtractor.extract 62-79: the fetch returns; with a body the
\* completion is called (a blocking call, no await in between) and what it
\* parses to is returned
UnlockerFetchReturns ==
    /\ task["U"] = "running" /\ uStep = "fetch"
    /\ uStep' = "end"
    /\ \E h \in FetchOutcomes :
          IF h = "html"
          THEN /\ ucalls' = [ucalls EXCEPT !.llm = @ + 1]
               /\ \E resp \in UnlockerCompletions : Complete("U", TaskData(llm_extract(resp)))
          ELSE /\ Complete("U", TaskData(JNull))
               /\ UNCHANGED ucalls
    /\ UNCHANGED <<pc, env, stages, raw_data, outcome, awaited, race>>
    /\ UNCHANGED NotScrape

\* the completed paths whose result the race has not taken yet, oldest first
Unhandled == SelectSeq(doneOrder, LAMBDA p : p \notin awaited)
NextCompleted_BrowserFirst ==
    IF \E i \in 1..Len(Unhandled) : Unhandled[i] = "B" THEN "B" ELSE Head(Unhandled)
NextCompleted == Head(Unhandled)

\* the race gives up once the second path has failed too
BothFailed_FirstFailure(p) == TRUE
BothFailed(p) == Other(p) \in awaited

\* what reaping a cancelled task raises in the race: nothing
ReapError_Propagates == "CancelledError"
ReapError == "None"

\* The race takes the result of the next completed path: a usable one wins,
\* is returned, and the other path is cancelled if it still runs; an
\* unusable one leaves the race waiting for the other path, or fails the
\* race when that one has failed already.
RaceHandle ==
    /\ pc = "race" /\ race.status = "running"
    /\ Unhandled # <<>>
    /\ LET p == NextCompleted
           q == Other(p)
       IN  /\ awaited' = awaited \cup {p}
           /\ IF Usable(out[p])
              THEN /\ race' = [status |-> "returned", winner |-> p,
                               result |-> PathResult(p, out[p]), error |-> "None"]
                   /\ task' = [task EXCEPT ![q] = IF @ = "running" THEN "cancelled" ELSE @]
              ELSE /\ race' = IF BothFailed(p)
                              THEN [race EXCEPT !.status = "raised", !.error = "ExtractionError"]
                              ELSE race
                   /\ UNCHANGED task
    /\ UNCHANGED <<pc, env, stages, raw_data, outcome, uStep, out, doneOrder, ucalls>>
    /\ UNCHANGED NotScrape

\* the cancelled loser is reaped inside the race
RaceReap ==
    /\ \E p \in Paths :
          /\ task[p] = "cancelled"
          /\ task' = [task EXCEPT ![p] = "reaped"]
    /\ race' = IF ReapError = "None" THEN race
               ELSE [race EXCEPT !.status = "raised", !.error = ReapError]
    /\ UNCHANGED <<pc, env, stages, raw_data, outcome, uStep, out, doneOrder, awaited, ucalls>>
    /\ UNCHANGED NotScrape

\* main.py 203-216: an ExtractionError of the race is re-raised, any other
\* error is not handled here; a result that is no success raises
\* ExtractionError; otherwise its extracted_data goes on to validation
AfterExtraction_Swallow(r) ==
    IF r.status = "raised" \/ ~r.result.success
    THEN [pc |-> "validate", error |-> "None", raw |-> JEmptyDict]
    ELSE [pc |-> "validate", error |-> "None", raw |-> r.result.extracted_data]
AfterExtraction(r) ==
    IF r.status = "raised" THEN [pc |-> "raised", error |-> r.error, raw |-> JNull]
    ELSE IF ~r.result.success
         THEN [pc |-> "raised", error |-> "ExtractionError", raw |-> JNull]
         ELSE [pc |-> "validate", error |-> "None", raw |-> r.result.extracted_data]

RaceReturns ==
    /\ pc = "race"
    /\ race.status \in {"returned", "raised"}
    /\ \A p \in Paths : task[p] # "cancelled"
    /\ LET a == AfterExtraction(race)
       IN  /\ pc' = a.pc
           /\ raw_data' = a.raw
           /\ outcome' = IF a.pc = "raised" THEN Raise(a.error) ELSE outcome
    /\ UNCHANGED <<env, stages, raceVars>>
    /\ UNCHANGED NotScrape

\* main.py 218-263
Validate ==
    /\ pc = "validate"
    /\ IF env.skip_validation
       THEN /\ outcome' = Return(raw_data, FALSE)
            /\ pc' = "returned"
            /\ UNCHANGED stages
       ELSE /\ stages' = Append(stages, "validation")
            /\ \E v \in {"pass", "mismatch"} :
                  IF v = "pass"
                  THEN outcome' = Return(raw_data, TRUE) /\ pc' = "returned"
                  ELSE outcome' = Raise("ExtractionError") /\ pc' = "raised"
    /\ UNCHANGED <<env, raw_data, raceVars>>
    /\ UNCHANGED NotScrape

(***************************************************************************)
(* WebExtractor.extract and WebExtractor.extract_with_fallback             *)
(* (src/extractor.py).  One step is one iteration of the retry loop of     *)
(* extract; the code of extract_with_fallback that follows the end of an   *)
(* extract call runs in the step that ends the call.                       *)
(***************************************************************************)
\* extract(): max_retries defaults to 3
MaxRetries == 3
StrategyValues == {"css", "llm"}
\* the arguments of extract_with_fallback; both fallback arguments default
\* to None
FallbackCfgs ==
    [primary_strategy_type : StrategyValues,
     fallback_strategy : BOOLEAN,
     fallback_strategy_type : {"None"} \cup StrategyValues]

NoContent == JScalar("no_content")
GoodData == JDict(<<"a">>, <<JStr>>)
AltData == JDict(<<"b">>, <<JStr>>)
\* result.extracted_content: nothing, text that is no JSON, or JSON text
Contents ==
    {NoContent, BadJson, GoodData, JEmptyDict, JDict(<<"a">>, <<JEmptyList>>),
     JEmptyList, JStr, JList(<<GoodData>>), JList(<<JEmptyDict, GoodData>>),
     JList(<<JStr, GoodData>>)}
\* what crawler.arun does in one attempt: it raises, or it returns a result
\* with success False, or a result with content, html and (in the html) the
\* data the alternative sources would give
Crawls ==
    [kind : {"raise", "failed"}, content : {NoContent}, html : {FALSE}, alt : {JNull}]
      \cup [kind : {"ok"}, content : Contents, html : BOOLEAN,
            alt : {JNull, AltData, JList(<<AltData>>)}]

extract_from_alternative_sources(c) == c.alt

\* lines 235-240
has_data(item) ==
    \E v \in Values(item) :
        \/ IsList(v) /\ Len(v.c) > 0
        \/ IsDict(v) /\ Truthy(v)
        \/ v # JNull /\ v # JEStr /\ v # JEmptyList
\* lines 232-247
first_non_empty(items) ==
    IF \E i \in 1..Len(items) : has_data(items[i])
    THEN items[CHOOSE i \in 1..Len(items) :
                  has_data(items[i]) /\ \A j \in 1..(i - 1) : ~has_data(items[j])]
    ELSE items[1]
\* lines 226-253
normalize(v) ==
    IF IsList(v) /\ Len(v.c) > 0
    THEN IF Len(v.c) > 1 /\ \A i \in 1..Len(v.c) : IsDict(v.c[i])
         THEN first_non_empty(v.c)
         ELSE IF Len(v.c) = 1 THEN v.c[1] ELSE JDict(<<"items">>, <<v>>)
    ELSE v

\* models.py: extracted_data is declared Dict[str, Any], the constructor
\* raises a validation error for any other value
ExtractionResult(d, tag, success, error_message) ==
    [extracted_data |-> d, extraction_strategy |-> tag,
     success |-> success, error_message |-> error_message]

AttemptFails(cause, alt) == [kind |-> "fail", res |-> NoItem, cause |-> cause, alt |-> alt]
AttemptReturn(res, alt) == [kind |-> "return", res |-> res, cause |-> "None", alt |-> alt]
Construct_Unvalidated(d, tag, alt) ==
    AttemptReturn(ExtractionResult(d, tag, TRUE, "None"), alt)
Construct(d, tag, alt) ==
    IF IsDict(d) THEN AttemptReturn(ExtractionResult(d, tag, TRUE, "None"), alt)
    ELSE AttemptFails("invalid_result", alt)

\* lines 182-217
OnNoContent(stype, c) ==
    IF c.html /\ Truthy(extract_from_alternative_sources(c))
    THEN Construct(extract_from_alternative_sources(c), <<stype, "alternative">>, TRUE)
    ELSE IF stype = "css"
         THEN AttemptReturn(ExtractionResult(JEmptyDict, <<stype>>, FALSE,
                                             "CSS extraction returned no content"), c.html)
         ELSE AttemptFails("no_content", c.html)
\* lines 221-307
OnContent(stype, c) ==
    LET d == normalize(c.content)
        consult == extract_is_empty(d) /\ c.html
        alt_data == extract_from_alternative_sources(c)
    IN  Construct(IF consult /\ Truthy(alt_data) THEN alt_data ELSE d, <<stype>>, consult)
\* one iteration of the loop, lines 155-309
Attempt(stype, c) ==
    CASE c.kind = "raise" -> AttemptFails("crawl_raised", FALSE)
      [] c.kind = "failed" -> AttemptFails("crawl_failed", FALSE)
      [] c.content = NoContent -> OnNoContent(stype, c)
      [] c.content = BadJson -> AttemptFails("bad_json", FALSE)
      [] OTHER -> OnContent(stype, c)

\* extract_with_fallback, lines 356 and 366
HasFallback(cfg) == cfg.fallback_strategy /\ cfg.fallback_strategy_type # "None"
NoFOut == [kind |-> "none", res |-> NoItem, error |-> "None"]
Goto(at) == [fpc |-> at, out |-> NoFOut]
Done(res) == [fpc |-> "returned", out |-> [kind |-> "return", res |-> res, error |-> "None"]]
RaiseOut == [fpc |-> "raised", out |-> [kind |-> "raise", res |-> NoItem, error |-> "ExtractionError"]]
\* lines 349-362, 370: the extract call made at position at returned res
AfterReturn(at, cfg, res) ==
    IF at = "primary"
    THEN IF res.success /\ Truthy(res.extracted_data)
         THEN Done(res)
         ELSE IF HasFallback(cfg) THEN Goto("fb360") ELSE Done(res)
    ELSE Done(res)
\* lines 364-373: the extract call made at position at raised
\* ExtractionError; the handler covers the calls of lines 349 and 360
AfterRaise_NoFallback(at, cfg) == RaiseOut
AfterRaise(at, cfg) ==
    IF at \in {"primary", "fb360"}
    THEN IF HasFallback(cfg) THEN Goto("fb370") ELSE RaiseOut
    ELSE RaiseOut

InExtract == {"primary", "fb360", "fb370"}
CurrentType(at, cfg) ==
    IF at = "primary" THEN cfg.primary_strategy_type ELSE cfg.fallback_strategy_type

FallbackIdle ==
    /\ fpc = "idle" /\ fcfg \in FallbackCfgs
    /\ attempt = 0 /\ sleeps = <<>> /\ log = <<>> /\ altCalls = <<>>
    /\ exCalls = <<>> /\ exEnds = <<>> /\ fOut = NoFOut

\* line 349
CallExtractWithFallback ==
    /\ fpc = "idle"
    /\ fpc' = "primary"
    /\ exCalls' = <<fcfg.primary_strategy_type>>
    /\ UNCHANGED <<fcfg, attempt, sleeps, log, altCalls, exEnds, fOut>>
    /\ UNCHANGED NotFallback

\* the extract call ends and extract_with_fallback goes on to n
EndCall(n, how) ==
    /\ fpc' = n.fpc
    /\ fOut' = n.out
    /\ exEnds' = Append(exEnds, how)
    /\ IF n.fpc \in InExtract
       THEN /\ exCalls' = Append(exCalls, fcfg.fallback_strategy_type)
            /\ attempt' = 0 /\ sleeps' = <<>> /\ log' = <<>> /\ altCalls' = <<>>
       ELSE UNCHANGED <<exCalls, attempt, sleeps>>

\* lines 176, 214, 292, 314: asyncio.sleep(2 ** attempt)
backoff_Constant(n) == 1
backoff(n) == 2 ^ n

\* an attempt before the last one fails: back off and go round again
AttemptRetries ==
    /\ fpc \in InExtract
    /\ attempt < MaxRetries - 1
    /\ \E c \in Crawls :
          LET a == Attempt(CurrentType(fpc, fcfg), c)
          IN  /\ a.kind = "fail"
              /\ log' = Append(log, a.cause)
              /\ altCalls' = IF a.alt THEN Append(altCalls, attempt) ELSE altCalls
    /\ sleeps' = Append(sleeps, backoff(attempt))
    /\ attempt' = attempt + 1
    /\ UNCHANGED <<fpc, fcfg, exCalls, exEnds, fOut>>
    /\ UNCHANGED NotFallback

\* an attempt returns an ExtractionResult
AttemptReturns ==
    /\ fpc \in InExtract
    /\ \E c \in Crawls :
          LET a == Attempt(CurrentType(fpc, fcfg), c)
          IN  /\ a.kind = "return"
              /\ EndCall(AfterReturn(fpc, fcfg, a.res), "return")
              /\ IF AfterReturn(fpc, fcfg, a.res).fpc \in InExtract
                 THEN TRUE
                 ELSE /\ altCalls' = IF a.alt THEN Append(altCalls, attempt) ELSE altCalls
                      /\ UNCHANGED log
    /\ UNCHANGED fcfg
    /\ UNCHANGED NotFallback

\* the last attempt fails: extract raises ExtractionError (lines 309-316)
AttemptRaises ==
    /\ fpc \in InExtract
    /\ attempt = MaxRetries - 1
    /\ \E c \in Crawls :
          LET a == Attempt(CurrentType(fpc, fcfg), c)
          IN  /\ a.kind = "fail"
              /\ EndCall(AfterRaise(fpc, fcfg), "raise")
              /\ IF AfterRaise(fpc, fcfg).fpc \in InExtract
                 THEN TRUE
                 ELSE /\ log' = Append(log, a.cause)
                      /\ altCalls' = IF a.alt THEN Append(altCalls, attempt) ELSE altCalls
    /\ UNCHANGED fcfg
    /\ UNCHANGED NotFallback

(***************************************************************************)
(* The list-vs-object normalization of WebExtractor.extract, lines 224-255, *)
(* applied to what json.loads returned.                                    *)
(***************************************************************************)
MaxItems == 3
\* the elements of an array: objects with one field, and values that are no
\* object
Elems ==
    {JDict(<<"a">>, <<v>>) : v \in Val0 \cup {JList(<<JStr>>), JDict(<<"b">>, <<JStr>>)}}
      \cup {JEmptyDict, JStr, JNull}
Arrays == UNION {{JList(items) : items \in [1..n -> Elems]} : n \in 0..MaxItems}
Parsed == Arrays \cup {GoodData, JEmptyDict, JStr, JNull}

NormalizeIdle == nIn \in Parsed /\ nOut = JNull /\ nPc = "in"

NormalizeCall ==
    /\ nPc = "in"
    /\ nOut' = normalize(nIn)
    /\ nPc' = "out"
    /\ UNCHANGED nIn
    /\ UNCHANGED NotNormalize

(***************************************************************************)
(* StrategyRouter.choose_strategy (src/strategy_router.py).                *)
(*                                                                         *)
(* A schema is given by what _is_complex_schema looks at: the number of    *)
(* scalar properties, and at most one further property that is an object,  *)
(* a union (anyOf / oneOf), an array of scalars, or an array of objects    *)
(* with a number of nested properties.                                     *)
(***************************************************************************)
MaxScalars == 12
MaxNested == 6
SpecialKinds == {"none", "object", "anyOf", "oneOf", "array_scalar", "array_object"}
Schemas ==
    {sc \in [scalars : 0..MaxScalars, special : SpecialKinds, nested : 0..MaxNested] :
        sc.special # "array_object" => sc.nested = 0}
NoSchema == [scalars |-> 0, special |-> "none", nested |-> 0]
Queries == {"q1", "q2"}
\* the classification call: an answer that contains the word SEMANTIC, one
\* that does not, a failed call, or a response without content
ClassifyReplies == {"semantic", "css", "api_error", "no_content"}
RouterInputs ==
    [query : Queries, json_schema : Schemas, prefer_css : BOOLEAN, reply : ClassifyReplies]

\* _is_semantic_query, lines 130-153
is_semantic_query_FailClosed(reply) == reply = "semantic"
is_semantic_query(reply) ==
    IF reply \in {"api_error", "no_content"} THEN TRUE ELSE reply = "semantic"

\* _is_complex_schema, lines 165-197
PropertyCount(sc) == sc.scalars + (IF sc.special = "none" THEN 0 ELSE 1)
is_complex_schema_Inclusive(sc) ==
    \/ sc.special = "array_object" /\ sc.nested >= 5
    \/ sc.special = "object"
    \/ sc.special \in {"anyOf", "oneOf"}
    \/ PropertyCount(sc) >= 10
is_complex_schema(sc) ==
    \/ sc.special = "array_object" /\ sc.nested > 5
    \/ sc.special = "object"
    \/ sc.special \in {"anyOf", "oneOf"}
    \/ PropertyCount(sc) > 10

Strategy(strategy_type, schema, query) ==
    [strategy_type |-> strategy_type, schema |-> schema, query |-> query]
\* lines 199-221 and 223-256
create_llm_strategy(json_schema, query) ==
    [tag |-> "llm", strategy |-> Strategy("llm", json_schema, query)]
create_css_strategy(css_schema) ==
    [tag |-> "css", strategy |-> Strategy("css", css_schema, "None")]

\* lines 107-114: neither semantic nor complex
DefaultStrategy_Css(json_schema, query, prefer_css) ==
    IF prefer_css THEN create_css_strategy(json_schema)
    ELSE create_llm_strategy(json_schema, query)
DefaultStrategy(json_schema, query, prefer_css) == create_llm_strategy(json_schema, query)

\* lines 98-114
Decision(sem, in) ==
    IF sem THEN create_llm_strategy(in.json_schema, in.query)
    ELSE IF is_complex_schema(in.json_schema)
         THEN create_llm_strategy(in.json_schema, in.query)
         ELSE DefaultStrategy(in.json_schema, in.query, in.prefer_css)

NoROut == [kind |-> "none", tag |-> "none", strategy |-> Strategy("none", NoSchema, "None")]

RouterIdle ==
    /\ rPc = "idle" /\ rIn \in RouterInputs /\ needs_semantic = FALSE /\ rOut = NoROut

\* line 93
RouterClassify ==
    /\ rPc = "idle"
    /\ needs_semantic' = is_semantic_query(rIn.reply)
    /\ rPc' = "classified"
    /\ UNCHANGED <<rIn, rOut>>
    /\ UNCHANGED NotRouter

\* lines 96-114
RouterDecide ==
    /\ rPc = "classified"
    /\ LET d == Decision(needs_semantic, rIn)
       IN  rOut' = [kind |-> "return", tag |-> d.tag, strategy |-> d.strategy]
    /\ rPc' = "done"
    /\ UNCHANGED <<rIn, needs_semantic>>
    /\ UNCHANGED NotRouter

(***************************************************************************)
(* Initial values of a component that a specification does not drive.      *)
(***************************************************************************)
(***************************************************************************)
(* The scrape_url tool, src/agent_tools.py: the scraper runs in a           *)
(* subprocess and scrape_url waits for it for at most 120 seconds.         *)
(***************************************************************************)
\* line 265: timeout=120.0
Timeout == 120
\* what the subprocess ends with: its return code and what it wrote
ProcResults == [returncode : {0, 1}, stdout : {"success", "failure", "not_json"}]
Response(success, error, is_error) ==
    [success |-> success, error |-> error, is_error |-> is_error]
NoResponse == Response(FALSE, "none", FALSE)
TimeoutResponse == Response(FALSE, "Scraper timeout (120s exceeded)", TRUE)
\* lines 288-326 and 328-339: the response built from a finished subprocess
ParseResult(r) ==
    IF r.returncode = 0
    THEN CASE r.stdout = "success" -> Response(TRUE, "None", FALSE)
           [] r.stdout = "failure" -> Response(FALSE, "scraper error", TRUE)
           [] OTHER -> Response(FALSE, "Invalid JSON from scraper", TRUE)
    ELSE Response(FALSE, "Scraper process failed", TRUE)

ToolIdle == tPc = "idle" /\ clock = 0 /\ process = <<>> /\ tOut = NoResponse

\* lines 254-260: create_subprocess_exec
ScrapeUrlCall ==
    /\ tPc = "idle"
    /\ tPc' = "waiting"
    /\ process' = <<"spawn">>
    /\ UNCHANGED <<clock, tOut>>
    /\ UNCHANGED NotTool

\* a second passes while the subprocess runs
Tick ==
    /\ tPc = "waiting"
    /\ clock < Timeout
    /\ clock' = clock + 1
    /\ UNCHANGED <<tPc, process, tOut>>
    /\ UNCHANGED NotTool

\* lines 263-266, 288-326: communicate() returns before the timeout
CommunicateReturns ==
    /\ tPc = "waiting"
    /\ clock < Timeout
    /\ \E r \in ProcResults : tOut' = ParseResult(r)
    /\ process' = process \o <<"exit", "wait">>
    /\ tPc' = "done"
    /\ UNCHANGED clock
    /\ UNCHANGED NotTool

\* lines 273-274 and 341-352: wait_for raises TimeoutError and the handler
\* calls process.kill().  The subprocess may have ended on its own while
\* wait_for was cancelling communicate(); process.kill() then raises
\* ProcessLookupError, which the outer "except Exception" turns into an
\* "Unexpected error" response.
TimeoutFires ==
    /\ tPc = "waiting"
    /\ clock = Timeout
    /\ \E ended \in BOOLEAN :
          IF ended
          THEN /\ process' = process \o <<"exit", "wait">>
               /\ tOut' = Response(FALSE, "Unexpected error: ", TRUE)
               /\ tPc' = "done"
          ELSE /\ process' = Append(process, "kill")
               /\ tPc' = "reaping"
               /\ UNCHANGED tOut
    /\ UNCHANGED clock
    /\ UNCHANGED NotTool

\* lines 275-286: await process.wait(), then the timeout response
ProcessWait ==
    /\ tPc = "reaping"
    /\ process' = Append(process, "wait")
    /\ tOut' = TimeoutResponse
    /\ tPc' = "done"
    /\ UNCHANGED clock
    /\ UNCHANGED NotTool

(***************************************************************************)
(* StructuredDataExtractor.extract_jsonld, lines 52-92.  A schema type is   *)
(* a string; it is written here as the sequence of its capitalised words,  *)
(* "NewsArticle" as <<"News", "Article">>, and the substring test of        *)
(* _is_relevant_schema as a test for a contiguous run of words.            *)
(***************************************************************************)
MaxBlocks == 2
\* lines 156-160
relevant_types ==
    {<<"Product">>, <<"Article">>, <<"News", "Article">>, <<"Blog", "Posting">>,
     <<"Job", "Posting">>, <<"Review">>, <<"Organization">>, <<"Person">>,
     <<"Event">>, <<"Recipe">>, <<"Book">>, <<"Movie">>}
\* t in schema_type
IsSubstring(t, schema_type) ==
    \E i \in 0..(Len(schema_type) - Len(t)) :
        \A k \in 1..Len(t) : schema_type[i + k] = t[k]
\* lines 154-162
is_relevant_schema(schema_type) ==
    \E t \in relevant_types : IsSubstring(t, schema_type)
\* the @type of an object; <<>> is the default of data.get('@type', '')
SchemaTypes ==
    {<<>>, <<"Product">>, <<"Organization">>, <<"Blog", "Posting">>,
     <<"Movie", "Theater">>, <<"Breadcrumb", "List">>}
ItemTypes == {<<"Product">>, <<"Breadcrumb", "List">>, <<"Movie", "Theater">>}
\* a script block: text that is no JSON, a JSON scalar, one object, or a
\* list of objects
Blocks ==
    [kind : {"not_json", "scalar"}, types : {<<>>}]
      \cup [kind : {"object"}, types : {<<t>> : t \in SchemaTypes}]
      \cup [kind : {"list"},
            types : {<<t>> : t \in ItemTypes} \cup {<<t, u>> : t, u \in ItemTypes}]
Documents == UNION {[1..n -> Blocks] : n \in 0..MaxBlocks}
NoJsonld == [kind |-> "None", type |-> <<>>, block |-> 0, item |-> 0]
Found(t, i, j) == [kind |-> "object", type |-> t, block |-> i, item |-> j]
\* lines 66-83: what one block gives
FromBlock(b, i) ==
    IF b.kind \in {"object", "list"}
          /\ \E j \in 1..Len(b.types) : is_relevant_schema(b.types[j])
    THEN LET j == CHOOSE j \in 1..Len(b.types) :
                     /\ is_relevant_schema(b.types[j])
                     /\ \A k \in 1..(j - 1) : ~is_relevant_schema(b.types[k])
         IN  Found(b.types[j], i, j)
    ELSE NoJsonld
\* lines 64-87: the loop over the blocks, from block i on
RECURSIVE ScanFrom(_, _)
ScanFrom(html, i) ==
    IF i > Len(html) THEN NoJsonld
    ELSE IF FromBlock(html[i], i) # NoJsonld THEN FromBlock(html[i], i)
         ELSE ScanFrom(html, i + 1)
extract_jsonld(html) == ScanFrom(html, 1)

JsonldIdle == jPc = "in" /\ jHtml \in Documents /\ jOut = NoJsonld

ExtractJsonld ==
    /\ jPc = "in"
    /\ jOut' = extract_jsonld(jHtml)
    /\ jPc' = "out"
    /\ UNCHANGED jHtml
    /\ UNCHANGED NotJsonld

(***************************************************************************)
(* ContentOptimizer._clean_markdown, lines 113-127.  The text is a         *)
(* sequence of tokens: a newline, a space, an empty link "[](...)" (the    *)
(* text the pattern of line 122 matches) and any other character.          *)
(***************************************************************************)
MaxLen == 5
Tokens == {"nl", "sp", "link", "x"}
Markdowns == UNION {[1..n -> Tokens] : n \in 0..MaxLen}
\* re.sub(c{max+1,}, c * max, s): a run of more than max tokens c is cut
\* down to max
Squeeze(s, c, max) ==
    LET F[i \in 0..Len(s)] ==
            IF i = 0 THEN <<>>
            ELSE IF s[i] = c /\ i > max /\ \A k \in 1..max : s[i - k] = c
                 THEN F[i - 1]
                 ELSE Append(F[i - 1], s[i])
    IN  F[Len(s)]
\* line 122
RemoveEmptyLinks(s) == SelectSeq(s, LAMBDA t : t # "link")
\* line 125
Strip(s) ==
    LET I == {i \in 1..Len(s) : s[i] \notin {"nl", "sp"}}
    IN  IF I = {} THEN <<>>
        ELSE SubSeq(s, CHOOSE i \in I : \A j \in I : i <= j,
                       CHOOSE i \in I : \A j \in I : i >= j)
\* lines 116-127, in the order of the code
clean_markdown(s) ==
    Strip(RemoveEmptyLinks(Squeeze(Squeeze(s, "nl", 2), "sp", 1)))

CleanIdle == mPc = "in" /\ markdown \in Markdowns /\ mOut = <<>>

\* optimize, lines 88-95: step 5 and the return
CleanMarkdown ==
    /\ mPc = "in"
    /\ mOut' = clean_markdown(markdown)
    /\ mPc' = "out"
    /\ UNCHANGED markdown
    /\ UNCHANGED NotClean

(***************************************************************************)
(* WebExtractor.extract_from_alternative_sources, src/extractor.py          *)
(* lines 375-414, and the three conversions of lines 520-621.               *)
(***************************************************************************)
\* in the order of lines 396, 402 and 408
Sources == <<"jsonld", "meta", "data_attrs">>
\* what _extract_jsonld, _extract_meta_tags and _extract_data_attributes
\* give for a page: None or a non-empty dict
SourceData(src) == {JNull, JDict(<<src>>, <<JStr>>), JDict(<<src>>, <<JZero>>)}
\* the text the completion answers with: a JSON object, JSON null, a JSON
\* list, text that is no JSON; or the call raises
Replies == {"object", "null", "list", "not_json", "api_error"}
AltPages ==
    [jsonld : SourceData("jsonld"), meta : SourceData("meta"),
     data_attrs : SourceData("data_attrs"), reply : Replies]
Converted == JDict(<<"name">>, <<JStr>>)
\* lines 520-551, 553-584, 586-621: json.loads of the reply, or the raw
\* data under a raw_* key when anything raised
convert_with_llm(src, d, reply) ==
    CASE reply = "object" -> Converted
      [] reply = "null" -> JNull
      [] reply = "list" -> JList(<<Converted>>)
      [] OTHER -> JDict(<<"raw_" \o src>>, <<d>>)
\* the sources consulted: up to and including the first that gives data
Yielding(pg) == {i \in 1..Len(Sources) : Truthy(pg[Sources[i]])}
FirstYielding(pg) == CHOOSE i \in Yielding(pg) : \A j \in Yielding(pg) : i <= j
ConsultedUpTo(pg) ==
    IF Yielding(pg) = {} THEN Sources ELSE SubSeq(Sources, 1, FirstYielding(pg))

AltIdle ==
    /\ aPc = "idle" /\ aPage \in AltPages
    /\ consulted = <<>> /\ conversions = <<>> /\ aOut = JNull

\* lines 396-414, up to the conversion call or the return of None
AltConsult ==
    /\ aPc = "idle"
    /\ consulted' = ConsultedUpTo(aPage)
    /\ IF Yielding(aPage) = {}
       THEN aPc' = "done" /\ UNCHANGED conversions
       ELSE aPc' = "converting" /\ conversions' = <<Sources[FirstYielding(aPage)]>>
    /\ UNCHANGED <<aPage, aOut>>
    /\ UNCHANGED NotAlt

\* lines 399, 405, 411: the conversion ends and its value is returned
AltConversionReturns ==
    /\ aPc = "converting"
    /\ aOut' = convert_with_llm(conversions[1], aPage[conversions[1]], aPage.reply)
    /\ aPc' = "done"
    /\ UNCHANGED <<aPage, consulted, conversions>>
    /\ UNCHANGED NotAlt

ParseOff ==
    /\ pcP = "off" /\ spider = <<>> /\ page = <<>> /\ tier = NoTiers /\ order = <<>>
    /\ running = {} /\ llmCalls = 0 /\ results_collector = <<>> /\ yielded = <<>>
    /\ raisedIn = {}
EmptyOff == emptyOut = "none" /\ inlineOut = "none" /\ data = JNull
ScrapeOff ==
    /\ pc = "off" /\ env = <<>> /\ stages = <<>> /\ task = [p \in Paths |-> "idle"]
    /\ uStep = "idle" /\ out = [p \in Paths |-> Pending] /\ doneOrder = <<>>
    /\ awaited = {} /\ race = NoRace /\ ucalls = [fetch |-> 0, llm |-> 0]
    /\ raw_data = JNull /\ outcome = NoOutcome
RouterOff == rPc = "off" /\ rIn = <<>> /\ needs_semantic = FALSE /\ rOut = NoROut
NormalizeOff == nIn = JNull /\ nOut = JNull /\ nPc = "off"
FallbackOff ==
    /\ fpc = "off" /\ fcfg = <<>> /\ attempt = 0 /\ sleeps = <<>> /\ log = <<>>
    /\ altCalls = <<>> /\ exCalls = <<>> /\ exEnds = <<>> /\ fOut = NoFOut

ToolOff == tPc = "off" /\ clock = 0 /\ process = <<>> /\ tOut = NoResponse
JsonldOff == jPc = "off" /\ jHtml = <<>> /\ jOut = NoJsonld
CleanOff == mPc = "off" /\ markdown = <<>> /\ mOut = <<>>
AltOff ==
    aPc = "off" /\ aPage = <<>> /\ consulted = <<>> /\ conversions = <<>> /\ aOut = JNull
LaterOff == ToolOff /\ JsonldOff /\ CleanOff /\ AltOff
CoreOff ==
    EmptyOff /\ ParseOff /\ ScrapeOff /\ FallbackOff /\ NormalizeOff /\ RouterOff

(***************************************************************************)
(* The specifications.                                                     *)
(***************************************************************************)
InitEmpty == EmptyIdle /\ ParseOff /\ ScrapeOff /\ FallbackOff /\ NormalizeOff /\ RouterOff
    /\ LaterOff
NextEmpty == CallIsEmpty \/ CallExtractIsEmpty
SpecEmpty == InitEmpty /\ [][NextEmpty]_vars

InitParse == ParseIdle /\ EmptyOff /\ ScrapeOff /\ FallbackOff /\ NormalizeOff /\ RouterOff
    /\ LaterOff
NextParse == ParseCall \/ CompletionReturns \/ ErrbackCall
SpecParse == InitParse /\ [][NextParse]_vars

Init ==
    ScrapeIdle /\ EmptyOff /\ ParseOff /\ FallbackOff /\ NormalizeOff /\ RouterOff
    /\ LaterOff
Next ==
    \/ CheckRobots \/ GenerateSchema \/ ChooseStrategy
    \/ RaceStart \/ BrowserCompletes \/ UnlockerCheckCredentials \/ UnlockerFetchReturns
    \/ RaceHandle \/ RaceReap \/ RaceReturns
    \/ Validate
Spec == Init /\ [][Next]_vars

InitFallback == FallbackIdle /\ EmptyOff /\ ParseOff /\ ScrapeOff /\ NormalizeOff /\ RouterOff
    /\ LaterOff
NextFallback == CallExtractWithFallback \/ AttemptRetries \/ AttemptReturns \/ AttemptRaises
SpecFallback == InitFallback /\ [][NextFallback]_vars

InitNormalize == NormalizeIdle /\ EmptyOff /\ ParseOff /\ ScrapeOff /\ FallbackOff /\ RouterOff
    /\ LaterOff
NextNormalize == NormalizeCall
SpecNormalize == InitNormalize /\ [][NextNormalize]_vars

InitRouter ==
    RouterIdle /\ EmptyOff /\ ParseOff /\ ScrapeOff /\ FallbackOff /\ NormalizeOff
    /\ LaterOff
NextRouter == RouterClassify \/ RouterDecide
SpecRouter == InitRouter /\ [][NextRouter]_vars

InitTool == ToolIdle /\ CoreOff /\ JsonldOff /\ CleanOff /\ AltOff
NextTool == ScrapeUrlCall \/ Tick \/ CommunicateReturns \/ TimeoutFires \/ ProcessWait
SpecTool == InitTool /\ [][NextTool]_vars

InitJsonld == JsonldIdle /\ CoreOff /\ ToolOff /\ CleanOff /\ AltOff
NextJsonld == ExtractJsonld
SpecJsonld == InitJsonld /\ [][NextJsonld]_vars

InitClean == CleanIdle /\ CoreOff /\ ToolOff /\ JsonldOff /\ AltOff
NextClean == CleanMarkdown
SpecClean == InitClean /\ [][NextClean]_vars

InitAlt == AltIdle /\ CoreOff /\ ToolOff /\ JsonldOff /\ CleanOff
NextAlt == AltConsult \/ AltConversionReturns
SpecAlt == InitAlt /\ [][NextAlt]_vars

(***************************************************************************)
(* The claims.                                                             *)
(***************************************************************************)
Last(q) == q[Len(q)]

IndexOf(p) == CHOOSE i \in 1..Len(doneOrder) : doneOrder[i] = p
Completed == {doneOrder[i] : i \in 1..Len(doneOrder)}

\* C1: both paths are started in one step, and the race returns the result
\* of the first path that completed with usable content; the other path no
\* longer runs from that moment (it is cancelled if it had not completed),
\* and the result of a cancelled or later-completed path is never taken.
C1_FirstUsableWins ==
    /\ (task["B"] = "idle") <=> (task["U"] = "idle")
    /\ race.status = "returned" =>
         LET w == race.winner
             o == Other(race.winner)
         IN  /\ task[w] = "done" /\ Usable(out[w])
             /\ \A p \in Completed : Usable(out[p]) => IndexOf(w) <= IndexOf(p)
             /\ race.result = PathResult(w, out[w])
             /\ task[o] # "running"
             /\ task[o] \in {"cancelled", "reaped"} => o \notin awaited /\ out[o] = Pending
             /\ o \in awaited => ~Usable(out[o]) /\ IndexOf(o) < IndexOf(w)
\* the unlocker completed first with data while the browser was still
\* running, and the browser was cancelled
C1_Witness ==
    /\ race.status = "returned" /\ race.winner = "U"
    /\ doneOrder = <<"U">>
    /\ task["B"] = "cancelled"

\* C2: when one path fails or comes back empty and the other succeeds, in
\* either completion order, the race keeps waiting after the failure and
\* then returns exactly the result the successful path yields on its own:
\* success, tagged with that path, carrying no error.
C2_SurvivingPathWins ==
    \A q \in Paths :
       LET p == Other(q)
       IN  /\ (p \in awaited /\ ~Usable(out[p]) /\ q \notin awaited) => race.status = "running"
           /\ (task[p] = "done" /\ ~Usable(out[p]) /\ task[q] = "done" /\ Usable(out[q])
                 /\ race.status # "running") =>
                /\ race.status = "returned" /\ race.winner = q
                /\ race.result = PathResult(q, out[q])
                /\ race.result.success
                /\ race.result.error_message = "None"
                /\ (race.result.extraction_strategy = M_web_unlocker) <=> (q = "U")
                /\ pc = "returned" => outcome.value = out[q].res.extracted_data
\* Scenario D: the browser path raised first, the unlocker then returned
\* data, and scrape() returned it
C2_Witness ==
    /\ doneOrder = <<"B", "U">>
    /\ out["B"] = TaskRaise
    /\ race.status = "returned" /\ race.winner = "U"
    /\ race.result.extraction_strategy = M_web_unlocker
    /\ pc = "returned" /\ outcome.value = JDict(<<"b">>, <<JStr>>)

\* C3: the race fails only when both paths have completed without usable
\* content; scrape() then raises ExtractionError, enters no stage after
\* extraction and returns nothing.
C3_BothFailRaises ==
    race.status = "raised" =>
        /\ \A p \in Paths : task[p] = "done" /\ p \in awaited /\ ~Usable(out[p])
        /\ pc \in {"race", "raised"}
        /\ Last(stages) = "extraction"
        /\ raw_data = JNull
        /\ pc = "raised" => outcome = Raise("ExtractionError")
\* Scenario E
C3_Witness ==
    /\ race.status = "raised"
    /\ doneOrder = <<"U", "B">>
    /\ pc = "raised" /\ outcome = Raise("ExtractionError")

\* C4: a cancelled loser never turns into an error of the extraction: the
\* race has returned the winner's result, scrape() received it, and no
\* cancellation error is raised.
C4_CancellationSwallowed ==
    \A p \in Paths :
       task[p] \in {"cancelled", "reaped"} =>
          /\ race.status = "returned" /\ race.winner = Other(p)
          /\ race.result = PathResult(Other(p), out[Other(p)])
          /\ outcome.error # "CancelledError"
          /\ pc # "race" => raw_data = race.result.extracted_data
\* the unlocker was cancelled and reaped, and scrape() returned the
\* browser's data
C4_Witness ==
    /\ task["U"] = "reaped"
    /\ race.winner = "B"
    /\ pc = "returned" /\ outcome.value = BrowserData

\* C5: without the API token or without the zone the unlocker makes no
\* fetch and no completion call and returns None; the race then ends as
\* the browser path ends: it returns the browser's result when that is
\* usable and fails when it is not.
C5_UnconfiguredUnlocker ==
    (~env.UNLOCKER_API_TOKEN \/ ~env.UNLOCKER_ZONE) =>
        /\ ucalls = [fetch |-> 0, llm |-> 0]
        /\ task["B"] \notin {"cancelled", "reaped"}
        /\ task["U"] = "done" => out["U"] = TaskData(JNull)
        /\ race.status = "returned" =>
               race.winner = "B" /\ Usable(out["B"]) /\ race.result = out["B"].res
        /\ race.status = "raised" => task["B"] = "done" /\ ~Usable(out["B"])
        /\ pc = "returned" => outcome.value = out["B"].res.extracted_data
\* no zone: the unlocker returned None first, the browser then won
C5_Witness ==
    /\ env.UNLOCKER_API_TOKEN /\ ~env.UNLOCKER_ZONE
    /\ doneOrder = <<"U", "B">>
    /\ out["U"] = TaskData(JNull)
    /\ race.status = "returned" /\ race.winner = "B"
    /\ pc = "returned"

TierStarted == {"running", "empty", "hit", "raised"}
TierYieldedNothing == {"empty", "absent"}

\* C6: the tiers run in the order T1, T2, T3 and one at a time; a tier is
\* started only when every cheaper tier has finished with nothing, and no
\* tier runs once a tier has yielded data.
C6_TiersSequential ==
    /\ Cardinality(running) <= 1
    /\ running = {k \in 1..3 : tier[k] = "running"}
    /\ \A i \in 1..(Len(order) - 1) : order[i] < order[i + 1]
    /\ \A k \in 1..3 : tier[k] \in TierStarted =>
           \A j \in 1..(k - 1) : tier[j] \in TierYieldedNothing
    /\ \A k \in 1..3 : tier[k] = "hit" =>
           running = {} /\ \A j \in (k + 1)..3 : tier[j] = "notrun"
\* T3 hit after T1 and T2 each made their completion call and came back empty
C6_Witness ==
    /\ tier = <<"empty", "empty", "hit">>
    /\ order = <<1, 2, 3>>
    /\ pcP = "done"

\* C7: an exception raised inside a tier is treated as an empty result of
\* that tier: every later tier is still attempted and the item parse() ends
\* with is not the error item of the handler around all tiers.
C7_TierExceptionAbsorbed ==
    (pcP = "done" /\ raisedIn # {}) =>
        /\ \A k \in raisedIn : \A j \in (k + 1)..3 : tier[j] # "notrun"
        /\ Last(yielded).extraction_strategy # <<spider.strategy_type>> \o M_error

AllTiersEmpty == pcP = "done" /\ \A k \in 1..3 : tier[k] \in TierYieldedNothing

FetchFailed == log # <<>> /\ Last(log) \in {"crawl_raised", "crawl_failed"}
Exhausted == Len(log) = MaxRetries /\ attempt = MaxRetries - 1

\* C9 as stated: extract_with_fallback raises only when the fetch failed, or
\* when the strategy is exhausted and the caller supplied no fallback
\* strategy; with a fallback strategy supplied it does not raise on the
\* failure of the primary strategy.
C9_RaisesOnlyWithoutFallback ==
    fOut.kind = "raise" =>
        /\ FetchFailed \/ (Exhausted /\ ~fcfg.fallback_strategy)
        /\ fcfg.fallback_strategy => Len(exCalls) > 1

\* C9, amended: extract_with_fallback raises ExtractionError only when the
\* last strategy it has left used up all its attempts, every one of them
\* failing: the primary strategy when no fallback strategy with its type
\* was supplied, the fallback strategy when one was.  With a fallback
\* strategy and its type supplied, a raise of the primary strategy starts
\* the fallback and nothing is raised at that point.
C9_RaisesOnlyWhenExhausted ==
    /\ fOut.kind = "raise" =>
          /\ fOut.error = "ExtractionError"
          /\ Exhausted
          /\ Last(exEnds) = "raise"
          /\ IF HasFallback(fcfg)
             THEN /\ Len(exCalls) >= 2
                  /\ Last(exCalls) = fcfg.fallback_strategy_type
                  /\ exCalls[1] = fcfg.primary_strategy_type
             ELSE exCalls = <<fcfg.primary_strategy_type>>
    /\ (HasFallback(fcfg) /\ exEnds = <<"raise">>) =>
          /\ fOut.kind = "none"
          /\ fpc = "fb370"
          /\ exCalls = <<fcfg.primary_strategy_type, fcfg.fallback_strategy_type>>
\* a fallback was supplied, every page load succeeded, and both strategies
\* came back without content three times: the call raises
C9_Witness ==
    /\ fOut.kind = "raise"
    /\ HasFallback(fcfg)
    /\ exCalls = <<"llm", "llm">>
    /\ exEnds = <<"raise", "raise">>
    /\ log = <<"no_content", "no_content", "no_content">>

SpecEmptyValues == {JNull, JEmptyList, JEmptyDict}
DataIsEmptyBySpec == Len(data.c) = 0 \/ \A i \in 1..Len(data.c) : data.c[i] \in SpecEmptyValues

\* C10: on a mapping the emptiness test (the spider's and the extractor's
\* inline one) answers empty exactly when the mapping has no entries or
\* every value is null, an empty list or an empty mapping; a mapping with
\* a value 0, false or a non-empty string is answered not empty.
C10_EmptinessTest ==
    IsDict(data) =>
        /\ emptyOut # "none" =>
             /\ emptyOut = (IF DataIsEmptyBySpec THEN "True" ELSE "False")
             /\ (\E i \in 1..Len(data.c) : data.c[i] \in {JZero, JFalse, JStr})
                    => emptyOut = "False"
        /\ inlineOut # "none" =>
             /\ inlineOut = (IF DataIsEmptyBySpec THEN "True" ELSE "False")
             /\ (\E i \in 1..Len(data.c) : data.c[i] \in {JZero, JFalse, JStr})
                    => inlineOut = "False"
\* a mapping holding a 0 next to a null has been tested by both
C10_Witness ==
    /\ data = JDict(<<"a", "b">>, <<JNull, JZero>>)
    /\ emptyOut = "False" /\ inlineOut = "False"
RECURSIVE AllLeavesEmpty(_)
\* every leaf of v, at any depth, is null or the empty string (a list or a
\* mapping without entries has no leaf)
AllLeavesEmpty(v) ==
    IF v.k \in {"list", "dict"}
    THEN \A i \in 1..Len(v.c) : AllLeavesEmpty(v.c[i])
    ELSE v \in {JNull, JEStr}

\* C11: a mapping whose leaves, at any nesting depth, are all null or empty
\* is answered empty by the emptiness test (the spider's and the inline
\* one).
C11_DeepEmptiness ==
    (IsDict(data) /\ AllLeavesEmpty(data)) =>
        /\ emptyOut # "none" => emptyOut = "True"
        /\ inlineOut # "none" => inlineOut = "True"
\* C12: a result that extract_with_fallback hands to its caller as a success
\* (success true) carries extracted_data that the emptiness test does not
\* answer empty.
C12_SuccessIsNonEmpty ==
    (fOut.kind = "return" /\ fOut.res.success) =>
        ~extract_is_empty(fOut.res.extracted_data)
\* a field the emptiness test does not count as empty, the empty string
\* counted as empty too
NonEmptyField(v) == v \notin {JNull, JEStr, JEmptyList, JEmptyDict}
HasNonEmptyField(item) == \E v \in Values(item) : NonEmptyField(v)
FirstNonEmpty(items) ==
    IF \E i \in 1..Len(items) : HasNonEmptyField(items[i])
    THEN items[CHOOSE i \in 1..Len(items) :
                  HasNonEmptyField(items[i]) /\ \A j \in 1..(i - 1) : ~HasNonEmptyField(items[j])]
    ELSE items[1]
AllObjects(items) == \A i \in 1..Len(items) : IsDict(items[i])

\* C13: an array of one element is unwrapped to the element; an array of
\* several objects gives the first object, in order, with a non-empty
\* field, or the first object when none has one; an array of several
\* elements that are not all objects is wrapped under the key "items".
C13_ArrayNormalized ==
    (nPc = "out" /\ IsList(nIn) /\ Len(nIn.c) > 0) =>
        /\ Len(nIn.c) = 1 => nOut = nIn.c[1]
        /\ (Len(nIn.c) > 1 /\ AllObjects(nIn.c)) => nOut = FirstNonEmpty(nIn.c)
        /\ (Len(nIn.c) > 1 /\ ~AllObjects(nIn.c)) => nOut = JDict(<<"items">>, <<nIn>>)
RECURSIVE Delay(_)
\* 1, 2, 4, ...: the delay before the k-th retry
Delay(k) == IF k = 1 THEN 1 ELSE 2 * Delay(k - 1)

\* C14: an extract call makes at most MaxRetries attempts; before the k-th
\* retry it has slept 2^(k-1) seconds, one delay per failed attempt that is
\* followed by another; a call that raises has made all MaxRetries attempts
\* and slept MaxRetries - 1 times, not after the last one.
C14_RetryBackoff ==
    /\ attempt < MaxRetries
    /\ \A k \in 1..Len(sleeps) : sleeps[k] = Delay(k)
    /\ fpc \in InExtract => Len(sleeps) = attempt /\ Len(log) = attempt
    /\ fpc = "raised" => Len(log) = MaxRetries /\ Len(sleeps) = MaxRetries - 1
\* three failed page loads: delays of 1 s and 2 s, then the error
C14_Witness ==
    /\ fpc = "raised"
    /\ log = <<"crawl_failed", "crawl_failed", "crawl_failed">>
    /\ sleeps = <<1, 2>>
\* C15: the alternative sources are consulted for a page load without
\* content on the final attempt only: no earlier attempt that found no
\* content consulted them, and a result tagged "_alternative" is returned
\* from the final attempt only.
C15_AlternativeOnFinalOnly ==
    /\ \A i \in 1..Len(altCalls) :
          (altCalls[i] < Len(log) /\ log[altCalls[i] + 1] = "no_content")
              => altCalls[i] = MaxRetries - 1
    /\ (fOut.kind = "return" /\ Len(fOut.res.extraction_strategy) = 2
          /\ fOut.res.extraction_strategy[2] = "alternative")
              => attempt = MaxRetries - 1
StageOrder == <<"robots", "schema", "routing", "extraction", "validation">>
Rank(st) == CHOOSE i \in 1..Len(StageOrder) : StageOrder[i] = st
TypedErrors == {"ExtractionError", "SchemaGenerationError", "StrategyRoutingError"}
\* the stage each error type comes from
ErrorStages(e) ==
    CASE e = "SchemaGenerationError" -> {"schema"}
      [] e = "StrategyRoutingError" -> {"routing"}
      [] OTHER -> {"robots", "extraction", "validation"}

\* C16: scrape() enters its stages in the order robots, schema, routing,
\* extraction, validation, none skipped but an optional first or last one;
\* when it raises, the error is one of the three typed errors, it comes
\* from the last stage entered, and no value is returned; when it returns,
\* every stage had been entered.
C16_StagesInOrder ==
    /\ \A i \in 1..(Len(stages) - 1) : Rank(stages[i + 1]) = Rank(stages[i]) + 1
    /\ stages # <<>> =>
          stages[1] = (IF env.respect_robots_txt THEN "robots" ELSE "schema")
    /\ outcome.kind = "raise" <=> pc = "raised"
    /\ pc = "raised" =>
          /\ outcome.error \in TypedErrors
          /\ outcome.value = JNull
          /\ Last(stages) \in ErrorStages(outcome.error)
    /\ pc = "returned" =>
          /\ outcome.kind = "return"
          /\ Last(stages) = (IF env.skip_validation THEN "extraction" ELSE "validation")
\* routing failed after robots and schema: nothing after it was entered
C16_Witness ==
    /\ pc = "raised"
    /\ outcome = Raise("StrategyRoutingError")
    /\ stages = <<"robots", "schema", "routing">>
\* C17: once the validation stage of scrape() has been entered, scrape()
\* does not raise: it returns raw_data, validated or not.
C17_ValidationIsAdvisory ==
    (stages # <<>> /\ Last(stages) = "validation" /\ pc \in {"returned", "raised"}) =>
            /\ pc = "returned"
            /\ outcome.kind = "return"
            /\ outcome.value = raw_data
C19_AlwaysLLM ==
    /\ rOut.tag # "css"
    /\ rPc = "done" =>
          /\ rOut.kind = "return"
          /\ rOut.tag = "llm"
          /\ rOut.strategy = Strategy("llm", rIn.json_schema, rIn.query)
\* CSS was asked for, the query was classified as not semantic and the
\* schema is simple: still LLM
C19_Witness ==
    /\ rPc = "done"
    /\ rIn.prefer_css /\ rIn.reply = "css" /\ ~needs_semantic
    /\ rIn.json_schema = [scalars |-> 2, special |-> "none", nested |-> 0]
    /\ rOut.tag = "llm"

\* C20: when the classification call fails (the call raises, or its
\* response has no content to read), _is_semantic_query returns True and
\* choose_strategy goes on to return the LLM strategy.
C20_ClassifierFailSafe ==
    (rIn.reply \in {"api_error", "no_content"} /\ rPc # "idle") =>
        /\ needs_semantic
        /\ rPc = "done" => rOut.kind = "return" /\ rOut.tag = "llm"
C20_Witness ==
    /\ rIn.reply = "api_error"
    /\ rPc = "done"
    /\ needs_semantic
    /\ rOut = [kind |-> "return", tag |-> "llm",
               strategy |-> Strategy("llm", rIn.json_schema, rIn.query)]
\* the property kinds the specification calls complex
NestedObject(sc) == sc.special = "object"
UnionProperty(sc) == sc.special \in {"anyOf", "oneOf"}
WideItemArray(sc) == sc.special = "array_object" /\ sc.nested >= 6
ManyProperties(sc) == PropertyCount(sc) >= 11
ScalarsOnly(n) == [scalars |-> n, special |-> "none", nested |-> 0]
ObjectArray(n, k) == [scalars |-> n, special |-> "array_object", nested |-> k]
ComplexityChecked == rPc = "done" /\ ~needs_semantic
\* C21: the schema-complexity check answers true exactly when some property
\* is a direct nested object, some property is a union (anyOf / oneOf),
\* some array property has an object item schema with more than five nested
\* fields, or the schema has more than ten top-level properties; ten scalar
\* fields, or an object array with five nested fields, are not complex,
\* twelve scalar fields are.
C21_ComplexExactly ==
    ComplexityChecked =>
        /\ is_complex_schema(rIn.json_schema) <=>
              \/ NestedObject(rIn.json_schema)
              \/ UnionProperty(rIn.json_schema)
              \/ WideItemArray(rIn.json_schema)
              \/ ManyProperties(rIn.json_schema)
        /\ rIn.json_schema = ScalarsOnly(10) => ~is_complex_schema(rIn.json_schema)
        /\ rIn.json_schema = ObjectArray(0, 5) => ~is_complex_schema(rIn.json_schema)
        /\ rIn.json_schema = ScalarsOnly(12) => is_complex_schema(rIn.json_schema)
\* the boundary: an object array of exactly five nested fields beside nine
\* scalar fields (ten properties) was checked and found simple
C21_Witness ==
    /\ ComplexityChecked
    /\ rIn.json_schema = ObjectArray(9, 5)
    /\ ~is_complex_schema(rIn.json_schema)
    /\ rOut.tag = "llm"
\* the data only the alternative sources give, and the tag that names them
FromAlternative(res) == res.extracted_data = AltData
TaggedAlternative(res) == Last(res.extraction_strategy) = "alternative"
\* C22: the extraction_strategy of every result names the source that
\* produced its extracted_data: data that came from an alternative source
\* is returned under the "_alternative" tag, and data of the main strategy
\* never is.
C22_TagIsProvenance ==
    (fOut.kind = "return" /\ fOut.res.success) =>
        (FromAlternative(fOut.res) <=> TaggedAlternative(fOut.res))
\* wait_for gave up: communicate() had not returned after Timeout seconds
TimedOut == tPc = "done" /\ clock = Timeout
\* C23: an extraction that exceeds the 120-second timeout is a hard
\* failure: the subprocess is killed and reaped, and scrape_url returns an
\* error response that names the timeout, never a success or a result of
\* the subprocess.
C23_TimeoutIsHardFailure ==
    TimedOut =>
        /\ process = <<"spawn", "kill", "wait">>
        /\ tOut = TimeoutResponse
\* the allow-list the specification gives
AllowList ==
    {<<"Product">>, <<"Article">>, <<"Job", "Posting">>, <<"Review">>,
     <<"Organization">>, <<"Person">>, <<"Event">>, <<"Recipe">>, <<"Book">>,
     <<"Movie">>}
\* the objects of the page that parse, as <<block, item>> positions
ParsedObjects ==
    {p \in (1..Len(jHtml)) \X (1..2) :
        jHtml[p[1]].kind \in {"object", "list"} /\ p[2] <= Len(jHtml[p[1]].types)}
TypeAt(p) == jHtml[p[1]].types[p[2]]
Before(p, q) == p[1] < q[1] \/ (p[1] = q[1] /\ p[2] < q[2])
Allowed == {p \in ParsedObjects : TypeAt(p) \in AllowList}
\* C24: the JSON-LD pass returns the first object, in document order, that
\* parses and whose @type is on the allow-list; blocks that do not parse
\* are skipped; an object whose @type is not on the list is never returned.
C24_FirstAllowedObject ==
    jPc = "out" =>
        IF Allowed = {} THEN jOut = NoJsonld
        ELSE /\ jOut.kind = "object"
             /\ <<jOut.block, jOut.item>> \in Allowed
             /\ jOut.type = TypeAt(<<jOut.block, jOut.item>>)
             /\ \A q \in Allowed : ~Before(q, <<jOut.block, jOut.item>>)
\* a run of n tokens c somewhere in s
HasRun(s, c, n) ==
    \E i \in 1..(Len(s) - n + 1) : \A k \in 0..(n - 1) : s[i + k] = c
\* C25: the clean-up is idempotent: its output holds no run of three
\* newlines, no run of two spaces and no empty link, and cleaning the
\* output again changes nothing.
C25_CleanIdempotent ==
    mPc = "out" =>
        /\ ~HasRun(mOut, "nl", 3)
        /\ ~HasRun(mOut, "sp", 2)
        /\ ~HasRun(mOut, "link", 1)
        /\ clean_markdown(mOut) = mOut
\* the extract calls made after the primary one
FallbackCalls == IF exCalls = <<>> THEN <<>> ELSE Tail(exCalls)
\* C26: extract_with_fallback runs the fallback strategy at most once:
\* within one call extract is invoked at most twice, once with the primary
\* and at most once with the fallback.
C26_FallbackAtMostOnce ==
    /\ Len(exCalls) <= 2
    /\ Len(FallbackCalls) <= 1
\* extract_with_fallback has ended, and with it the last extract call
CallEnded == fpc \in {"returned", "raised"}
IsExtractionResult(res) ==
    /\ IsDict(res.extracted_data)
    /\ res.success \in BOOLEAN
    /\ res.extraction_strategy # <<>>
\* C27: every extract call ends after at most max_retries crawl attempts,
\* either returning an ExtractionResult or raising ExtractionError: a call
\* raises only when all max_retries attempts have failed, whatever made
\* them fail, and no call ends without one of the two.
C27_ExtractTerminates ==
    /\ attempt < MaxRetries
    /\ Len(log) <= MaxRetries
    /\ Len(exEnds) <= Len(exCalls)
    /\ \A i \in 1..Len(exEnds) : exEnds[i] \in {"return", "raise"}
    /\ CallEnded =>
          /\ Len(exEnds) = Len(exCalls)
          /\ fOut.kind = (IF fpc = "returned" THEN "return" ELSE "raise")
          /\ Last(exEnds) = fOut.kind
          /\ fOut.kind = "return" => IsExtractionResult(fOut.res) /\ fOut.error = "None"
          /\ fOut.kind = "raise" =>
                /\ fOut.error = "ExtractionError"
                /\ attempt = MaxRetries - 1
                /\ Len(log) = MaxRetries
\* three attempts failed for three different reasons, one of them an
\* exception raised by the crawler and one a value the result type rejects:
\* the caller sees ExtractionError
C27_Witness ==
    /\ fpc = "raised"
    /\ exCalls = <<"llm">>
    /\ log = <<"crawl_raised", "invalid_result", "bad_json">>
    /\ fOut = [kind |-> "raise", res |-> NoItem, error |-> "ExtractionError"]
\* C28: after the normalization extracted_data is a mapping whatever JSON
\* value the content parsed to: the returned result carries a mapping, and
\* no attempt whose crawl gave parsable content fails because the value
\* was not a mapping.
C28_AlwaysMapping ==
    /\ fOut.kind = "return" => IsDict(fOut.res.extracted_data)
    /\ \A i \in 1..Len(log) : log[i] # "invalid_result"
\* some source of the page gives data
SomeSourceYields == \E i \in 1..Len(Sources) : aPage[Sources[i]] # JNull
\* C29: the alternative sources are consulted in the order JSON-LD, meta
\* tags, data attributes, up to the first that yields data; exactly one
\* conversion call is made, for that source, and its outcome is returned;
\* none is returned, without a conversion call, only when no source yields
\* data.
C29_FirstSourceConverted ==
    aPc = "done" =>
        /\ \E n \in 1..Len(Sources) : consulted = SubSeq(Sources, 1, n)
        /\ \A i \in 1..(Len(consulted) - 1) : aPage[consulted[i]] = JNull
        /\ IF SomeSourceYields
           THEN /\ aPage[Last(consulted)] # JNull
                /\ conversions = <<Last(consulted)>>
                /\ aOut # JNull
           ELSE /\ consulted = Sources
                /\ conversions = <<>>
                /\ aOut = JNull
\* parse() or errback() has finished with the response or failure
Handled == pcP \in {"done", "raised"}
\* C30: each response handled by parse and each failure handled by errback
\* produces exactly one result and appends exactly that one entry to
\* results_collector; no path yields none or two.
C30_ExactlyOneResult ==
    /\ Len(yielded) <= 1
    /\ results_collector = yielded
    /\ Handled => Len(yielded) = 1
=============================================================================
